---- MODULE Spec2Model ----
(***************************************************************************)
(* The AI chat assistant of script.js (lines 409-732): the module-level    *)
(* chatState, the chat DOM it drives, the health probe issued on           *)
(* DOMContentLoaded, and the send / reply / clear handlers.                *)
(*                                                                         *)
(* A text is a sequence of one-character strings, so that trim,            *)
(* toLowerCase and includes are computed character by character.  A canned *)
(* text of the script (a demo response, the error notice) is a sequence    *)
(* holding the whole literal as one piece.                                 *)
(***************************************************************************)
EXTENDS Integers, Sequences, FiniteSets, TLC

----------------------------------------------------------------------------
(* Bounds of the model *)

\* sendMessage is not offered once chatState.messages holds this many entries
MaxTranscript == 3

\* at most this many exchanges (chat fetches, demo timers) are outstanding
MaxInflight == 2

\* sendMessage is not offered to a connected session once this many
\* chat-completion requests have been sent
MaxChatCalls == 3

\* the Gateway is not offered a valid request once it has called the model
\* runtime this many times
MaxRuntimeCalls == 3

----------------------------------------------------------------------------
(* Texts *)

Whitespace == {" ", "\t", "\n"}

UpperLetters == <<"A", "B", "C", "D", "E", "F", "G", "H", "I", "J", "K", "L", "M", "N", "O", "P", "Q", "R", "S", "T", "U", "V", "W", "X", "Y", "Z">>

LowerLetters == <<"a", "b", "c", "d", "e", "f", "g", "h", "i", "j", "k", "l", "m", "n", "o", "p", "q", "r", "s", "t", "u", "v", "w", "x", "y", "z">>

\* the value of a property that is absent or undefined in JavaScript
Undefined == <<"undefined">>

RECURSIVE trimStart(_)
trimStart(s) ==
    IF s # <<>> /\ Head(s) \in Whitespace THEN trimStart(Tail(s)) ELSE s

RECURSIVE trimEnd(_)
trimEnd(s) ==
    IF s # <<>> /\ s[Len(s)] \in Whitespace
    THEN trimEnd(SubSeq(s, 1, Len(s) - 1))
    ELSE s

\* String.prototype.trim
trim(s) == trimEnd(trimStart(s))

lowerChar(c) ==
    IF \E i \in 1..Len(UpperLetters) : UpperLetters[i] = c
    THEN LowerLetters[CHOOSE i \in 1..Len(UpperLetters) : UpperLetters[i] = c]
    ELSE c

\* String.prototype.toLowerCase
toLowerCase(s) == [i \in 1..Len(s) |-> lowerChar(s[i])]

\* String.prototype.includes
includes(s, sub) ==
    \E i \in 0..(Len(s) - Len(sub)) : SubSeq(s, i + 1, i + Len(sub)) = sub

----------------------------------------------------------------------------
(* Literals of the script *)

\* data-prompt values of the suggested-prompt buttons
PromptSkills == <<"T", "e", "l", "l", " ", "m", "e", " ", "a", "b", "o", "u", "t", " ", "y", "o", "u", "r", " ", "s", "k", "i", "l", "l", "s", " ", "a", "n", "d", " ", "e", "x", "p", "e", "r", "i", "e", "n", "c", "e">>

PromptProjects == <<"W", "h", "a", "t", " ", "p", "r", "o", "j", "e", "c", "t", "s", " ", "h", "a", "v", "e", " ", "y", "o", "u", " ", "w", "o", "r", "k", "e", "d", " ", "o", "n", "?">>

PromptWorks == <<"E", "x", "p", "l", "a", "i", "n", " ", "h", "o", "w", " ", "t", "h", "i", "s", " ", "A", "I", " ", "a", "s", "s", "i", "s", "t", "a", "n", "t", " ", "w", "o", "r", "k", "s">>

Prompts == {PromptSkills, PromptProjects, PromptWorks}

demoResponses ==
    [skills   |-> <<"I'm a developer with expertise in JavaScript, HTML & CSS, React, Node.js, and Git. I've also built this AI chat interface using FastAPI and modern LLM integration!">>,
     projects |-> <<"I've worked on various projects including this portfolio website with an integrated AI assistant. The AI backend is powered by a FastAPI microservice running on an edge server with Ollama for local LLM hosting.">>,
     ai       |-> <<"This AI assistant is powered by a FastAPI microservice that I built. It uses OpenAI-compatible endpoints and can connect to Ollama or other LLM backends. The service runs on edge servers for better privacy and control.">>,
     default  |-> <<"This is demo mode! To enable full AI capabilities, make sure the FastAPI microservice is running. Check out the API documentation for deployment instructions. You can ask me about my skills, projects, or how this AI system works!">>]

ErrorNotice == <<"Sorry, I encountered an error. The API might be unavailable. Please check if the FastAPI service is running on your edge server.">>

KwSkill == <<"s", "k", "i", "l", "l">>
KwExperience == <<"e", "x", "p", "e", "r", "i", "e", "n", "c", "e">>
KwProject == <<"p", "r", "o", "j", "e", "c", "t">>
KwAi == <<"a", "i">>
KwWork == <<"w", "o", "r", "k">>
KwAssistant == <<"a", "s", "s", "i", "s", "t", "a", "n", "t">>

----------------------------------------------------------------------------
(* Inputs from the environment *)

\* what the visitor may have typed into the textarea
TypedTexts == { <<>>, <<" ", " ">>, <<" ", "H", "i", " ">> }

\* keys of a keydown event on the textarea
Keys == {"Enter", "a"}

\* outcomes of a fetch: the promise rejects, or resolves with response.ok
FetchOutcomes == {"reject", "ok", "not_ok"}

\* parsed bodies of GET /health
HealthBodies == { "null", "no_model", "with_model" }

\* message.content values a chat-completion reply may carry
ReplyContents == { <<"h", "e", "l", "l", "o">>, <<>> }

\* outcomes of response.json() on a chat-completion reply: it rejects
\* (unparsable body), or yields JSON null, an object without message, a
\* message without content, or a message with content
ChatBodies ==
    { [shape |-> "json_reject"], [shape |-> "null"], [shape |-> "no_message"],
      [shape |-> "no_content"] }
    \cup { [shape |-> "content", content |-> c] : c \in ReplyContents }

----------------------------------------------------------------------------
(* State *)

VARIABLES
    initPc,            \* position of initializeChat: "unloaded", "fetch",
                       \* "json", "hung", "failed" or "ready"
    healthCalls,       \* number of GET /health requests issued
    chatCalls,         \* number of POST /v1/chat/completions requests issued
    probeOutcome,      \* how the health probe ended ("none" while it has not)
    isConnected,       \* chatState.isConnected
    isTyping,          \* chatState.isTyping
    messages,          \* chatState.messages
    chatInput,         \* chatInput.value
    sendBtnDisabled,   \* sendBtn.disabled
    statusIndicator,   \* class of the status indicator
    demoBanner,        \* the "Demo Mode Active" box is in the page
    welcome,           \* the welcome message, with its prompt buttons, is shown
    typingIndicators,  \* number of #typingIndicator elements in chatMessages
    rendered,          \* the message elements of chatMessages, in order
    inflight,          \* the suspended sendMessage calls, in order of issue
    lastEvent,         \* the handler or callback that ran last
    gateway,           \* the Completion Gateway: the number of calls it made
                       \* to the model runtime, and the request it handled
                       \* last with its result
    returned           \* the values of data.message.content the session has
                       \* read from chat-completion replies so far

vars == <<initPc, healthCalls, chatCalls, probeOutcome, isConnected, isTyping, messages,
          chatInput, sendBtnDisabled, statusIndicator, demoBanner, welcome,
          typingIndicators, rendered, inflight, lastEvent, gateway,
          returned>>

initVars == <<initPc, healthCalls, probeOutcome, isConnected, statusIndicator,
              demoBanner, gateway, returned>>

chatVars == <<isTyping, messages, sendBtnDisabled, welcome, typingIndicators,
              rendered, inflight, chatCalls>>

\* SessionMode of the controller
Mode ==
    IF initPc # "ready" THEN "UNINITIALIZED"
    ELSE IF isConnected THEN "LIVE" ELSE "DEMO"

Init ==
    /\ initPc = "unloaded"
    /\ healthCalls = 0
    /\ chatCalls = 0
    /\ probeOutcome = "none"
    /\ isConnected = FALSE
    /\ isTyping = FALSE
    /\ messages = <<>>
    /\ chatInput = <<>>
    /\ sendBtnDisabled = FALSE
    /\ statusIndicator = "initial"
    /\ demoBanner = FALSE
    /\ welcome = TRUE
    /\ typingIndicators = 0
    /\ rendered = <<>>
    /\ inflight = <<>>
    /\ lastEvent = [op |-> "none"]
    /\ gateway = [runtimeCalls |-> 0, request |-> [messages |-> <<>>],
                  result |-> [kind |-> "none"]]
    /\ returned = {}

----------------------------------------------------------------------------
(* Initialisation: initializeChat and checkAPIHealth *)

\* the page has loaded: initializeChat starts and awaits the health fetch
DOMContentLoaded ==
    /\ initPc = "unloaded"
    /\ initPc' = "fetch"
    /\ healthCalls' = healthCalls + 1
    /\ lastEvent' = [op |-> "DOMContentLoaded"]
    /\ UNCHANGED <<probeOutcome, isConnected, statusIndicator, demoBanner,
                   chatInput, gateway,
                   returned>>
    /\ UNCHANGED chatVars

\* The try block of checkAPIHealth for a settled probe: whether it threw and
\* the value it left in chatState.isConnected.
healthTry(outcome) ==
    CASE outcome \in {"reject", "not_ok", "json_reject"} ->
             [threw |-> TRUE, isConnected |-> isConnected,
              statusIndicator |-> statusIndicator]
      [] outcome = "null" ->
             \* isConnected is set, then data.model throws a TypeError
             [threw |-> TRUE, isConnected |-> TRUE,
              statusIndicator |-> statusIndicator]
      [] OTHER ->
             [threw |-> FALSE, isConnected |-> TRUE,
              statusIndicator |-> "online"]

\* checkAPIHealth with the probe trusted as soon as the status is a success
checkAPIHealthTrustStatus(outcome) ==
    LET t == healthTry(outcome) IN
    IF t.threw /\ outcome \notin {"json_reject", "null"}
    THEN [isConnected |-> FALSE, statusIndicator |-> "offline",
          demoBanner |-> welcome, rejects |-> FALSE]
    ELSE [isConnected |-> TRUE, statusIndicator |-> "online",
          demoBanner |-> demoBanner, rejects |-> FALSE]

\* checkAPIHealth from the point where the probe has settled
checkAPIHealth(outcome) ==
    LET t == healthTry(outcome) IN
    IF t.threw
    THEN [isConnected |-> FALSE, statusIndicator |-> "offline",
          demoBanner |-> welcome, rejects |-> FALSE]
    ELSE [isConnected |-> t.isConnected, statusIndicator |-> t.statusIndicator,
          demoBanner |-> demoBanner, rejects |-> FALSE]

\* initializeChat probing again when the probe has failed
initializeChatResumeRetries(outcome) ==
    LET h == checkAPIHealth(outcome) IN
    /\ probeOutcome' = outcome
    /\ isConnected' = h.isConnected
    /\ statusIndicator' = h.statusIndicator
    /\ demoBanner' = h.demoBanner
    /\ initPc' = IF h.isConnected THEN "ready" ELSE "fetch"
    /\ healthCalls' = IF h.isConnected THEN healthCalls ELSE healthCalls + 1
    /\ lastEvent' = [op |-> "health"]
    /\ UNCHANGED <<chatInput, gateway,
                   returned>>
    /\ UNCHANGED chatVars

\* initializeChat resumes after `await checkAPIHealth()`: the listeners are
\* attached unless the awaited promise rejected
initializeChatResume(outcome) ==
    LET h == checkAPIHealth(outcome) IN
    /\ probeOutcome' = outcome
    /\ isConnected' = h.isConnected
    /\ statusIndicator' = h.statusIndicator
    /\ demoBanner' = h.demoBanner
    /\ initPc' = IF h.rejects THEN "failed" ELSE "ready"
    /\ lastEvent' = [op |-> "health"]
    /\ UNCHANGED <<healthCalls, chatInput, gateway,
                   returned>>
    /\ UNCHANGED chatVars

\* the health fetch settles
HealthFetchSettles(outcome) ==
    /\ initPc = "fetch"
    /\ IF outcome = "ok"
       THEN /\ initPc' = "json"
            /\ lastEvent' = [op |-> "health"]
            /\ UNCHANGED <<healthCalls, probeOutcome, isConnected,
                           statusIndicator, demoBanner, chatInput, gateway,
                   returned>>
            /\ UNCHANGED chatVars
       ELSE initializeChatResume(outcome)

\* response.json() of the health reply settles; parsed is "json_reject" or
\* one of HealthBodies
HealthJsonSettles(parsed) ==
    /\ initPc = "json"
    /\ initializeChatResume(parsed)

\* the health request never gets an answer: the fetch carries no timeout or
\* abort signal, so nothing resumes initializeChat
HealthHangs ==
    /\ initPc \in {"fetch", "json"}
    /\ initPc' = "hung"
    /\ lastEvent' = [op |-> "hang"]
    /\ UNCHANGED <<healthCalls, probeOutcome, isConnected, statusIndicator,
                   demoBanner, chatInput, gateway,
                   returned>>
    /\ UNCHANGED chatVars

----------------------------------------------------------------------------
(* The chat: sendMessage, getAIResponse, getDemoResponse, clearChat *)

Last(s) == s[Len(s)]

RemoveAt(s, i) == SubSeq(s, 1, i - 1) \o SubSeq(s, i + 1, Len(s))

userMsg(content) == [role |-> "user", content |-> content]

assistantMsg(content) == [role |-> "assistant", content |-> content]

\* addMessage: a message element is appended to chatMessages; assigning
\* undefined to textContent leaves the element's text empty
addMessage(elements, role, content) ==
    Append(elements,
           [role |-> role,
            content |-> IF content = Undefined THEN <<>> ELSE content])

\* JSON.stringify of a message list: a property whose value is undefined is
\* omitted from its object
JSONstringify(msgs) ==
    [i \in 1..Len(msgs) |->
        IF msgs[i].content = Undefined THEN [role |-> msgs[i].role]
        ELSE msgs[i]]

\* the request body with only the newest message as its history
requestMessagesLastOnly(msgs) == JSONstringify(<<Last(msgs)>>)

\* the messages of the body of POST /v1/chat/completions
requestMessages(msgs) == JSONstringify(msgs)

\* the branch of sendMessage that falls back to the demo reply once a chat
\* request has failed
dispatchFallsBackToDemo ==
    IF isConnected /\ ~\E k \in 1..Len(rendered) : rendered[k].content = ErrorNotice
    THEN "fetch"
    ELSE "timer"

\* the branch of sendMessage: `if (chatState.isConnected)` awaits
\* getAIResponse, which sends the chat request, else getDemoResponse, which
\* starts the delay timer
dispatch == IF isConnected THEN "fetch" ELSE "timer"

\* the guard of sendMessage without the isTyping test
sendRejectedIgnoresTyping(message) == message = <<>>

\* the guard of sendMessage without the test for an empty message
sendRejectedIgnoresEmpty(message) == isTyping

\* the early return of sendMessage: `if (!message || chatState.isTyping)`
sendRejected(message) == message = <<>> \/ isTyping

\* sendMessage with `value` in the textarea, up to its first await.  The
\* fields before and cleared of an exchange record the length of
\* chatState.messages when the call started and whether clearChat ran since.
sendMessage(value) ==
    LET message == trim(value) IN
    IF sendRejected(message)
    THEN /\ chatInput' = value
         /\ lastEvent' = [op |-> "sendMessage", value |-> value, accepted |-> FALSE]
         /\ UNCHANGED chatVars
    ELSE /\ Len(messages) < MaxTranscript
         /\ Len(inflight) < MaxInflight
         /\ dispatch = "fetch" => chatCalls < MaxChatCalls
         /\ chatInput' = <<>>
         /\ welcome' = FALSE
         /\ rendered' = addMessage(rendered, "user", message)
         /\ messages' = Append(messages, userMsg(message))
         \* showTypingIndicator
         /\ isTyping' = TRUE
         /\ sendBtnDisabled' = TRUE
         /\ typingIndicators' = typingIndicators + 1
         /\ inflight' = Append(inflight,
                [kind        |-> dispatch,
                 userMessage |-> message,
                 body        |-> IF dispatch = "fetch"
                                 THEN requestMessages(messages')
                                 ELSE <<>>,
                 before      |-> Len(messages),
                 cleared     |-> FALSE])
         /\ chatCalls' = IF dispatch = "fetch" THEN chatCalls + 1 ELSE chatCalls
         /\ lastEvent' = [op |-> "sendMessage", value |-> value, accepted |-> TRUE]

\* a click on the send, clear or prompt buttons while setupEventListeners has
\* not run: no listener is attached, so no handler runs
UnhandledClick ==
    /\ initPc # "ready"
    /\ lastEvent' = [op |-> "click", handled |-> FALSE]
    /\ UNCHANGED chatInput
    /\ UNCHANGED initVars
    /\ UNCHANGED chatVars

\* the send button with its listener attached before the probe is awaited
SendClickBeforeProbe ==
    /\ ~sendBtnDisabled
    /\ sendMessage(chatInput)
    /\ UNCHANGED initVars

\* click on the send button; a disabled button dispatches no click
SendClick ==
    /\ initPc = "ready"
    /\ ~sendBtnDisabled
    /\ sendMessage(chatInput)
    /\ UNCHANGED initVars

\* keydown on the textarea: Enter without Shift sends
KeyDown(key, shiftKey) ==
    /\ initPc = "ready"
    /\ IF key = "Enter" /\ ~shiftKey
       THEN sendMessage(chatInput)
       ELSE /\ lastEvent' = [op |-> "keydown"]
            /\ UNCHANGED chatInput
            /\ UNCHANGED chatVars
    /\ UNCHANGED initVars

\* click on a suggested-prompt button of the welcome message
PromptClick(prompt) ==
    /\ initPc = "ready"
    /\ welcome
    /\ sendMessage(prompt)
    /\ UNCHANGED initVars

\* the visitor edits the textarea
TypeText(text) ==
    /\ chatInput' = text
    /\ lastEvent' = [op |-> "input"]
    /\ UNCHANGED initVars
    /\ UNCHANGED chatVars

\* hideTypingIndicator resetting the flags only when it finds the indicator
hideTypingIndicatorOnlyIfShown ==
    IF typingIndicators > 0
    THEN /\ typingIndicators' = typingIndicators - 1
         /\ isTyping' = FALSE
         /\ sendBtnDisabled' = FALSE
    ELSE UNCHANGED <<typingIndicators, isTyping, sendBtnDisabled>>

\* hideTypingIndicator
hideTypingIndicator ==
    /\ typingIndicators' =
           IF typingIndicators > 0 THEN typingIndicators - 1 ELSE 0
    /\ isTyping' = FALSE
    /\ sendBtnDisabled' = FALSE

\* sendMessage resumes after its await and returns
sendMessageResume(i) ==
    /\ hideTypingIndicator
    /\ inflight' = RemoveAt(inflight, i)
    /\ UNCHANGED <<welcome, chatInput, initPc, healthCalls, probeOutcome,
                   statusIndicator, demoBanner, chatCalls, gateway>>

\* the catch clause of getAIResponse, taking the unanswered user message back
\* out of the history
getAIResponseCatchRollsBack ==
    /\ rendered' = addMessage(rendered, "assistant", ErrorNotice)
    /\ messages' = SubSeq(messages, 1, Len(messages) - 1)
    /\ UNCHANGED <<isConnected, returned>>

\* the catch clause of getAIResponse, with the notice pushed to the history
\* like a reply
getAIResponseCatchStoresNotice ==
    /\ rendered' = addMessage(rendered, "assistant", ErrorNotice)
    /\ messages' = Append(messages, assistantMsg(ErrorNotice))
    /\ UNCHANGED <<isConnected, returned>>

\* the catch clause of getAIResponse, with the session downgraded to demo mode
getAIResponseCatchDowngrades ==
    /\ rendered' = addMessage(rendered, "assistant", ErrorNotice)
    /\ isConnected' = FALSE
    /\ UNCHANGED <<messages, returned>>

\* the catch clause of getAIResponse: the notice is shown, not stored
getAIResponseCatch ==
    /\ rendered' = addMessage(rendered, "assistant", ErrorNotice)
    /\ UNCHANGED <<messages, isConnected, returned>>

\* the end of the try block of getAIResponse
getAIResponseStore(assistantMessage) ==
    /\ rendered' = addMessage(rendered, "assistant", assistantMessage)
    /\ messages' = Append(messages, assistantMsg(assistantMessage))
    /\ returned' = returned \cup {assistantMessage}
    /\ UNCHANGED isConnected

\* the chat fetch of exchange i settles
ChatFetchSettles(i, outcome) ==
    /\ i \in 1..Len(inflight)
    /\ inflight[i].kind = "fetch"
    /\ lastEvent' = [op |-> "chatFetch", outcome |-> outcome]
    /\ IF outcome = "ok"
       THEN /\ inflight' = [inflight EXCEPT ![i].kind = "json"]
            /\ UNCHANGED <<isTyping, messages, sendBtnDisabled, welcome,
                           typingIndicators, rendered, chatInput, chatCalls>>
            /\ UNCHANGED initVars
       ELSE /\ getAIResponseCatch
            /\ sendMessageResume(i)

\* response.json() of exchange i settles
ChatJsonSettles(i, parsed) ==
    /\ i \in 1..Len(inflight)
    /\ inflight[i].kind = "json"
    /\ lastEvent' = [op |-> "chatJson", outcome |-> parsed.shape]
    /\ CASE parsed.shape = "json_reject" ->
                getAIResponseCatch
         [] parsed.shape \in {"null", "no_message"} ->
                \* data.message.content throws a TypeError
                getAIResponseCatch
         [] parsed.shape = "no_content" ->
                getAIResponseStore(Undefined)
         [] OTHER ->
                getAIResponseStore(parsed.content)
    /\ sendMessageResume(i)

\* getDemoResponse answering by keyword on the first turn only, and with the
\* default reply once the history holds earlier messages
demoCategoryFirstTurnOnly(userMessage) ==
    LET lowerMessage == toLowerCase(userMessage) IN
    IF Len(messages) > 1
    THEN "default"
    ELSE IF includes(lowerMessage, KwSkill) \/ includes(lowerMessage, KwExperience)
    THEN "skills"
    ELSE IF includes(lowerMessage, KwProject)
    THEN "projects"
    ELSE IF \/ includes(lowerMessage, KwAi)
            \/ includes(lowerMessage, KwWork)
            \/ includes(lowerMessage, KwAssistant)
    THEN "ai"
    ELSE "default"

\* the chain of getDemoResponse with the project test ahead of the skill test
demoCategoryProjectsFirst(userMessage) ==
    LET lowerMessage == toLowerCase(userMessage) IN
    IF includes(lowerMessage, KwProject)
    THEN "projects"
    ELSE IF includes(lowerMessage, KwSkill) \/ includes(lowerMessage, KwExperience)
    THEN "skills"
    ELSE IF \/ includes(lowerMessage, KwAi)
            \/ includes(lowerMessage, KwWork)
            \/ includes(lowerMessage, KwAssistant)
    THEN "ai"
    ELSE "default"

\* the if / else-if chain of getDemoResponse
demoCategory(userMessage) ==
    LET lowerMessage == toLowerCase(userMessage) IN
    IF includes(lowerMessage, KwSkill) \/ includes(lowerMessage, KwExperience)
    THEN "skills"
    ELSE IF includes(lowerMessage, KwProject)
    THEN "projects"
    ELSE IF \/ includes(lowerMessage, KwAi)
            \/ includes(lowerMessage, KwWork)
            \/ includes(lowerMessage, KwAssistant)
    THEN "ai"
    ELSE "default"

\* the one-second timer of getDemoResponse fires for exchange i
DemoTimerFires(i) ==
    /\ i \in 1..Len(inflight)
    /\ inflight[i].kind = "timer"
    /\ lastEvent' = [op |-> "demoTimer"]
    /\ LET response == demoResponses[demoCategory(inflight[i].userMessage)] IN
       /\ rendered' = addMessage(rendered, "assistant", response)
       /\ messages' = Append(messages, assistantMsg(response))
    /\ UNCHANGED <<isConnected, returned>>
    /\ sendMessageResume(i)

\* clearChat that leaves the history alone while a reply is awaited
clearedMessagesUnlessTyping == IF isTyping THEN messages ELSE <<>>

\* `chatState.messages = []`
clearedMessages == <<>>

\* click on the clear button; confirmed is the answer to the confirm dialog
clearChat(confirmed) ==
    /\ initPc = "ready"
    /\ lastEvent' = [op |-> "clearChat", confirmed |-> confirmed]
    /\ IF confirmed
       THEN /\ messages' = clearedMessages
            \* chatMessages.innerHTML is replaced by a fresh welcome message
            /\ rendered' = <<>>
            /\ typingIndicators' = 0
            /\ welcome' = TRUE
            /\ demoBanner' = FALSE
            /\ inflight' = [j \in 1..Len(inflight) |->
                               [inflight[j] EXCEPT !.cleared = TRUE]]
            /\ UNCHANGED <<isTyping, sendBtnDisabled, chatCalls>>
       ELSE /\ UNCHANGED chatVars
            /\ UNCHANGED demoBanner
    /\ UNCHANGED <<initPc, healthCalls, probeOutcome, isConnected,
                   statusIndicator, chatInput, gateway,
                   returned>>

----------------------------------------------------------------------------
(* Specification *)

HealthSettles ==
    \/ \E outcome \in FetchOutcomes : HealthFetchSettles(outcome)
    \/ \E parsed \in {"json_reject"} \cup HealthBodies :
           HealthJsonSettles(parsed)

ChatSettles ==
    \/ \E i \in 1..Len(inflight), outcome \in FetchOutcomes :
           ChatFetchSettles(i, outcome)
    \/ \E i \in 1..Len(inflight), parsed \in ChatBodies :
           ChatJsonSettles(i, parsed)

TimerFires == \E i \in 1..Len(inflight) : DemoTimerFires(i)

Next ==
    \/ DOMContentLoaded
    \/ HealthSettles
    \/ HealthHangs
    \/ \E text \in TypedTexts : TypeText(text)
    \/ UnhandledClick
    \/ SendClick
    \/ \E key \in Keys, shiftKey \in BOOLEAN : KeyDown(key, shiftKey)
    \/ \E prompt \in Prompts : PromptClick(prompt)
    \/ ChatSettles
    \/ TimerFires
    \/ \E confirmed \in BOOLEAN : clearChat(confirmed)

Spec == Init /\ [][Next]_vars

\* the event loop runs a continuation once its promise or timer is due, and
\* a request that has not hung is answered
FairSpec ==
    /\ Spec
    /\ WF_vars(DOMContentLoaded)
    /\ WF_vars(HealthSettles)
    /\ WF_vars(ChatSettles)
    /\ WF_vars(TimerFires)

\* the sessions in which the visitor types the texts and leaves the
\* suggested prompts alone
TypedNext ==
    \/ DOMContentLoaded
    \/ HealthSettles
    \/ HealthHangs
    \/ \E text \in TypedTexts : TypeText(text)
    \/ SendClick
    \/ \E key \in Keys, shiftKey \in BOOLEAN : KeyDown(key, shiftKey)
    \/ ChatSettles
    \/ TimerFires
    \/ \E confirmed \in BOOLEAN : clearChat(confirmed)

\* every chat request that is outstanding is answered and its body read, and
\* every demo timer fires
TypedFairSpec ==
    /\ Init /\ [][TypedNext]_vars
    /\ WF_vars(ChatSettles)
    /\ WF_vars(TimerFires)

TypeOK ==
    /\ initPc \in {"unloaded", "fetch", "json", "hung", "failed", "ready"}
    /\ healthCalls \in 0..1
    /\ isConnected \in BOOLEAN
    /\ isTyping \in BOOLEAN
    /\ sendBtnDisabled \in BOOLEAN
    /\ Len(messages) <= MaxTranscript + 1
    /\ \A i \in 1..Len(messages) : messages[i].role \in {"user", "assistant"}

----------------------------------------------------------------------------
(* The demo responder on texts that hold any combination of its keywords *)

\* the keywords getDemoResponse looks for, in the order of its tests
DemoKeywords == <<KwSkill, KwExperience, KwProject, KwAi, KwWork, KwAssistant>>

toUpperCase(s) ==
    [i \in 1..Len(s) |->
        IF \E j \in 1..Len(LowerLetters) : LowerLetters[j] = s[i]
        THEN UpperLetters[CHOOSE j \in 1..Len(LowerLetters) : LowerLetters[j] = s[i]]
        ELSE s[i]]

RECURSIVE joinKeywords(_, _, _)
\* the keywords numbered in S, each after a blank, taken in the order `order`
joinKeywords(order, S, upper) ==
    IF order = <<>> THEN <<>>
    ELSE LET kw == DemoKeywords[Head(order)] IN
         (IF Head(order) \in S
          THEN <<" ">> \o (IF upper THEN toUpperCase(kw) ELSE kw)
          ELSE <<>>)
         \o joinKeywords(Tail(order), S, upper)

\* "Hi" followed by the keywords numbered in S, forwards or backwards, in
\* lower or in upper case
DemoText(S, backwards, upper) ==
    <<"H", "i">> \o
    joinKeywords(IF backwards THEN <<6, 5, 4, 3, 2, 1>> ELSE <<1, 2, 3, 4, 5, 6>>,
                 S, upper)

DemoTexts ==
    { DemoText(S, b, u) : S \in SUBSET (1..Len(DemoKeywords)),
                          b \in BOOLEAN, u \in BOOLEAN }

\* a session whose health probe was refused, with a text typed in
DemoInit ==
    /\ initPc = "ready"
    /\ healthCalls = 1
    /\ chatCalls = 0
    /\ probeOutcome = "reject"
    /\ isConnected = FALSE
    /\ isTyping = FALSE
    /\ messages = <<>>
    /\ chatInput \in DemoTexts
    /\ sendBtnDisabled = FALSE
    /\ statusIndicator = "offline"
    /\ demoBanner = TRUE
    /\ welcome = TRUE
    /\ typingIndicators = 0
    /\ rendered = <<>>
    /\ inflight = <<>>
    /\ lastEvent = [op |-> "input"]
    /\ gateway = [runtimeCalls |-> 0, request |-> [messages |-> <<>>],
                  result |-> [kind |-> "none"]]
    /\ returned = {}

DemoNext ==
    \/ SendClick
    \/ \E key \in Keys, shiftKey \in BOOLEAN : KeyDown(key, shiftKey)
    \/ TimerFires
    \/ \E confirmed \in BOOLEAN : clearChat(confirmed)

DemoSpec == DemoInit /\ [][DemoNext]_vars

----------------------------------------------------------------------------
(* The Completion Gateway: chatCompletion, as section 4.4 of the design     *)
(* describes it                                                            *)

\* the roles of a Message
GatewayRoles == {"user", "assistant"}

\* entries a request may hold: a role the Gateway knows or not, a content
\* that is empty or not
GatewayEntries ==
    { [role |-> r, content |-> c] :
          r \in GatewayRoles \cup {"tool"}, c \in { <<>>, <<"h", "i">> } }

\* the requests sent to the Gateway: up to two entries
GatewayRequests ==
    { [messages |-> m] :
          m \in {<<>>} \cup { <<e>> : e \in GatewayEntries }
                       \cup { <<e, f>> : e \in GatewayEntries, f \in GatewayEntries } }

\* what a call of the model runtime may give: a text, no answer, or an
\* answer that cannot be read
RuntimeOutcomes ==
    { [kind |-> "text", text |-> <<"h", "e", "l", "l", "o">>],
      [kind |-> "unavailable"], [kind |-> "malformed"] }

\* the validation of chatCompletion without the test for an empty list
validRequestAllowsEmpty(request) ==
    \A k \in 1..Len(request.messages) :
        /\ request.messages[k].role \in GatewayRoles
        /\ request.messages[k].content # <<>>

\* the validation of chatCompletion: messages is non-empty and each entry
\* has a recognized role and non-empty content
validRequest(request) ==
    /\ request.messages # <<>>
    /\ \A k \in 1..Len(request.messages) :
           /\ request.messages[k].role \in GatewayRoles
           /\ request.messages[k].content # <<>>

\* chatCompletion: an invalid request is rejected before the runtime is
\* called; a valid one is forwarded with its full history, and the runtime's
\* outcome becomes the response envelope or a structured error
chatCompletion(request, outcome) ==
    /\ IF ~validRequest(request)
       THEN gateway' = [gateway EXCEPT !.request = request,
                                       !.result = [kind |-> "ValidationError"]]
       ELSE /\ gateway.runtimeCalls < MaxRuntimeCalls
            /\ gateway' =
                  [runtimeCalls |-> gateway.runtimeCalls + 1,
                   request |-> request,
                   result |->
                       CASE outcome.kind = "text" ->
                                [kind |-> "ChatCompletionResponse",
                                 message |-> assistantMsg(outcome.text)]
                         [] outcome.kind = "unavailable" ->
                                [kind |-> "GatewayUnavailable"]
                         [] OTHER ->
                                [kind |-> "UpstreamMalformed"]]
    /\ UNCHANGED <<initPc, healthCalls, probeOutcome, isConnected,
                   statusIndicator, demoBanner, chatInput, lastEvent, returned>>
    /\ UNCHANGED chatVars

GatewayNext ==
    \E request \in GatewayRequests, outcome \in RuntimeOutcomes :
        chatCompletion(request, outcome)

GatewaySpec == Init /\ [][GatewayNext]_vars

----------------------------------------------------------------------------
(* Properties *)

\* the step is sendMessage called with `value` in the textarea
SubmitStep == lastEvent'.op = "sendMessage"

\* the step is a sendMessage call that got past the early return
AcceptedSubmitStep == SubmitStep /\ lastEvent'.accepted

\* the step ends exchange i: sendMessage returns and pending clears
Completes(i) ==
    /\ i \in 1..Len(inflight)
    /\ isTyping /\ ~isTyping'
    /\ inflight' = RemoveAt(inflight, i)

\* the health probe returned a success status and a body the script can read
\* the model from
ProbeSucceeded == probeOutcome \in {"no_model", "with_model"}

\* C1: when pending clears and no reset happened since the submit,
\* chatState.messages is exactly two entries longer than before the submit: a
\* user message followed by one assistant message, on every path.
C1_TurnAddsTwo ==
    [][\A i \in 1..Len(inflight) :
          (Completes(i) /\ ~inflight[i].cleared) =>
              /\ Len(messages') = inflight[i].before + 2
              /\ messages'[inflight[i].before + 1].role = "user"
              /\ messages'[inflight[i].before + 2].role = "assistant"]_vars

\* C2: at most one exchange (chat request or demo timer) is outstanding.
C2_SingleFlight == Len(inflight) <= 1

\* an exchange is outstanding, the chat was cleared meanwhile, and a further
\* submit has just been attempted
C2_Witness ==
    /\ Len(inflight) = 1
    /\ inflight[1].cleared
    /\ lastEvent.op = "sendMessage"

\* C3: a submit made while an exchange is pending changes neither the
\* transcript, nor the pending flag, nor the mode, and starts no exchange.
C3_SubmitWhilePendingNoOp ==
    [][(isTyping /\ SubmitStep) =>
          /\ messages' = messages
          /\ isTyping' = isTyping
          /\ isConnected' = isConnected
          /\ Mode' = Mode
          /\ inflight' = inflight]_vars

\* a non-empty text was submitted while pending and was turned away
C3_Witness ==
    /\ isTyping
    /\ lastEvent.op = "sendMessage"
    /\ trim(lastEvent.value) # <<>>
    /\ ~lastEvent.accepted

\* C4: a submit whose text is empty or whitespace-only leaves the transcript
\* alone, does not enter the pending state and starts no exchange.
C4_EmptySubmitRejected ==
    [][(SubmitStep /\ trim(lastEvent'.value) = <<>>) =>
          /\ ~lastEvent'.accepted
          /\ messages' = messages
          /\ isTyping' = isTyping
          /\ inflight' = inflight]_vars

\* a whitespace-only text was submitted while nothing was pending
C4_Witness ==
    /\ ~isTyping
    /\ lastEvent.op = "sendMessage"
    /\ lastEvent.value # <<>>
    /\ trim(lastEvent.value) = <<>>

\* C5: initializeChat never ends in an error, and once it has completed the
\* mode is LIVE exactly when the probe succeeded; a rejected fetch, a
\* non-success status and an unreadable body each give DEMO.
C5_ModeFollowsProbe ==
    /\ initPc # "failed"
    /\ initPc = "ready" =>
          /\ probeOutcome # "none"
          /\ Mode = "LIVE" <=> ProbeSucceeded
          /\ Mode = "DEMO" <=> ~ProbeSucceeded

\* initializeChat completed after a success status with an unparsable body
C5_Witness ==
    /\ initPc = "ready"
    /\ probeOutcome = "json_reject"
    /\ Mode = "DEMO"

\* C6: a health probe that never gets an answer still leads to
\* initializeChat completing in DEMO mode, ready to accept submits.
C6_HungProbeEndsDemo == (initPc = "hung") ~> (Mode = "DEMO")

\* C7: once initializeChat has completed the mode never changes, and a
\* session whose probe succeeded sends every accepted submit to the Gateway,
\* also after a failed call.
C7_ModeFixedAfterInit ==
    [][initPc = "ready" =>
          /\ Mode' = Mode
          /\ (AcceptedSubmitStep /\ ProbeSucceeded) =>
                 Last(inflight').kind = "fetch"]_vars

\* a LIVE session showed the error notice of a failed call and has sent the
\* next submit to the Gateway
C7_Witness ==
    /\ Mode = "LIVE"
    /\ \E k \in 1..Len(rendered) : rendered[k].content = ErrorNotice
    /\ Len(inflight) = 1
    /\ inflight[1].kind = "fetch"
    /\ ~inflight[1].cleared

\* C8 as stated: after every invocation of clearChat the transcript is empty.
C8_EveryResetClears == lastEvent.op = "clearChat" => messages = <<>>

\* C8, amended: every clearChat leaves the mode alone and issues no health
\* probe, and every clearChat the visitor confirms leaves the transcript
\* empty, also while an exchange is pending.
C8_ConfirmedResetClears ==
    [][lastEvent'.op = "clearChat" =>
          /\ Mode' = Mode
          /\ isConnected' = isConnected
          /\ healthCalls' = healthCalls
          /\ initPc' = initPc
          /\ lastEvent'.confirmed => messages' = <<>>]_vars

\* a confirmed clearChat has just run while an exchange is pending
C8_Witness ==
    /\ lastEvent = [op |-> "clearChat", confirmed |-> TRUE]
    /\ isTyping
    /\ Len(inflight) = 1
    /\ messages = <<>>

\* C9: the transcript never holds two user messages in a row.
C9_NoTwoUsersInARow ==
    \A k \in 1..(Len(messages) - 1) :
        ~(messages[k].role = "user" /\ messages[k + 1].role = "user")

\* C10: the request of a LIVE turn carries every entry of the transcript as
\* it stands when the request is sent, in order, and its last entry is the
\* user message the submit has just appended.
C10_RequestCarriesTranscript ==
    [][(AcceptedSubmitStep /\ Last(inflight').kind = "fetch") =>
          LET body == Last(inflight').body IN
          /\ Len(body) = Len(messages')
          /\ \A k \in 1..Len(body) :
                /\ body[k].role = messages'[k].role
                /\ messages'[k].content # Undefined => body[k] = messages'[k]
          /\ Last(body) = userMsg(trim(lastEvent'.value))
          /\ Last(messages') = Last(body)]_vars

\* a request is outstanding that carries an earlier turn and the new message
C10_Witness ==
    /\ Len(inflight) = 1
    /\ inflight[1].kind = "fetch"
    /\ Len(inflight[1].body) = 3
    /\ inflight[1].body[2].role = "assistant"

\* C11: in DEMO mode no chat-completion request is ever sent; in LIVE mode
\* every accepted submit sends exactly one request, nothing else sends one
\* (no retry), and the demo reply is never used, also after failed calls.
C11_DispatchFollowsMode ==
    [][/\ (AcceptedSubmitStep /\ Mode = "LIVE") =>
             /\ chatCalls' = chatCalls + 1
             /\ Len(inflight') = Len(inflight) + 1
             /\ Last(inflight').kind = "fetch"
       /\ (AcceptedSubmitStep /\ Mode = "DEMO") =>
             /\ chatCalls' = chatCalls
             /\ Last(inflight').kind = "timer"
       /\ ~AcceptedSubmitStep => chatCalls' = chatCalls
       /\ Mode = "DEMO" => chatCalls' = 0
       /\ lastEvent'.op = "demoTimer" => Mode = "DEMO"]_vars

\* a LIVE session has sent its second request after the first one failed
C11_Witness ==
    /\ Mode = "LIVE"
    /\ chatCalls = 2
    /\ \E k \in 1..Len(rendered) : rendered[k].content = ErrorNotice
    /\ Len(inflight) = 1
    /\ inflight[1].kind \in {"fetch", "json"}

\* the category the priority order skills, projects, ai, default gives to a
\* text holding exactly the keywords numbered in S
PriorityCategory(S) ==
    IF S \cap {1, 2} # {} THEN "skills"
    ELSE IF 3 \in S THEN "projects"
    ELSE IF S \cap {4, 5, 6} # {} THEN "ai"
    ELSE "default"

\* C12: for every combination of keywords in the text, the demo reply is the
\* one of the first matching category in the order skills, projects, ai, and
\* the default reply when no keyword is present.
C12_DemoPriorityOrder ==
    \A k \in 1..(Len(messages) - 1) :
        (messages[k].role = "user" /\ messages[k + 1].role = "assistant") =>
            \A S \in SUBSET (1..Len(DemoKeywords)), b \in BOOLEAN, u \in BOOLEAN :
                messages[k].content = DemoText(S, b, u) =>
                    messages[k + 1].content = demoResponses[PriorityCategory(S)]

\* a text holding every keyword, project first, got the skills reply
C12_Witness ==
    messages = <<userMsg(DemoText(1..6, TRUE, TRUE)),
                 assistantMsg(demoResponses.skills)>>

\* the one reply each text a visitor can submit has in demo mode
FixedDemoReply(text) ==
    CASE text = PromptSkills   -> demoResponses.skills
      [] text = PromptProjects -> demoResponses.projects
      [] text = PromptWorks    -> demoResponses.ai
      [] OTHER                 -> demoResponses.default

\* C13: the demo reply to a text is the same whatever the transcript, the
\* number of earlier turns and the resets before it: every answered user
\* message of a DEMO session carries the one reply fixed for its text.
C13_DemoReplyDependsOnTextOnly ==
    Mode = "DEMO" =>
        \A k \in 1..(Len(messages) - 1) :
            (messages[k].role = "user" /\ messages[k + 1].role = "assistant") =>
                messages[k + 1].content = FixedDemoReply(messages[k].content)

\* the same text was answered as the first and as the second turn of a
\* transcript, with the same reply
C13_Witness ==
    /\ Mode = "DEMO"
    /\ Len(messages) = 4
    /\ messages[1] = userMsg(<<"H", "i">>)
    /\ messages[3] = messages[1]
    /\ messages[4] = messages[2]

IsPrefix(s, t) == Len(s) <= Len(t) /\ SubSeq(t, 1, Len(s)) = s

\* C14: every step other than clearChat leaves the previous transcript as an
\* unchanged prefix of the new one, and only a confirmed clearChat empties a
\* transcript that held messages.
C14_AppendOnlyOutsideReset ==
    [][/\ lastEvent'.op # "clearChat" => IsPrefix(messages, messages')
       /\ (messages # <<>> /\ messages' = <<>>) =>
              lastEvent' = [op |-> "clearChat", confirmed |-> TRUE]]_vars

\* a reply of the Gateway has just been appended to a transcript of three
C14_Witness ==
    /\ lastEvent.op = "chatJson"
    /\ Len(messages) = 4
    /\ messages[4].role = "assistant"

\* C15: a success reply without message, or whose message has no content,
\* is answered with the error notice like a network error, and no assistant
\* message with missing or empty content is stored in the transcript.
C15_MalformedEnvelopeGivesNotice ==
    /\ (lastEvent.op = "chatJson"
          /\ lastEvent.outcome \in {"no_message", "no_content"}) =>
           /\ rendered # <<>>
           /\ Last(rendered) = assistantMsg(ErrorNotice)
    /\ \A k \in 1..Len(messages) :
           messages[k].role = "assistant" =>
               messages[k].content \notin {Undefined, <<>>}

\* the step resolves an exchange: a reply was parsed or could not be, the
\* request failed, or the demo delay elapsed
ResolveStep ==
    \/ lastEvent'.op \in {"chatJson", "demoTimer"}
    \/ lastEvent'.op = "chatFetch" /\ lastEvent'.outcome # "ok"

\* C16: whenever an exchange resolves the pending flag is cleared, and, every
\* outstanding call being answered and every timer firing, a pending state
\* always ends.
C16_PendingEventuallyClears ==
    /\ [][ResolveStep => (~isTyping' /\ ~sendBtnDisabled')]_vars
    /\ isTyping ~> ~isTyping

\* pending was cleared by a reply that could not be parsed, after the chat
\* had been cleared while the exchange was outstanding
C16_Witness ==
    /\ ~isTyping
    /\ lastEvent.op = "chatJson"
    /\ lastEvent.outcome = "json_reject"
    /\ welcome

\* C17: the session issues at most one health probe, the one of
\* DOMContentLoaded: no probe outcome, submit, failed call or reset issues
\* another.
C17_OneHealthProbe ==
    [][/\ healthCalls' <= 1
       /\ healthCalls' # healthCalls => lastEvent'.op = "DOMContentLoaded"]_vars

\* the probe failed, and the chat has since been used and cleared
C17_Witness ==
    /\ healthCalls = 1
    /\ probeOutcome = "not_ok"
    /\ lastEvent = [op |-> "clearChat", confirmed |-> TRUE]
    /\ Len(inflight) = 1

\* C18: while the health probe has not resolved no submit is accepted: the
\* transcript is empty, nothing is pending and no request or demo reply has
\* been started; and every exchange is of the kind the probe's outcome fixes.
C18_NoSubmitBeforeProbe ==
    /\ initPc # "ready" =>
          /\ messages = <<>>
          /\ rendered = <<>>
          /\ inflight = <<>>
          /\ ~isTyping
          /\ chatCalls = 0
    /\ \A i \in 1..Len(inflight) :
          inflight[i].kind \in {"fetch", "json"} <=> ProbeSucceeded

\* the visitor has typed a text and clicked while the probe is outstanding
C18_Witness ==
    /\ initPc \in {"fetch", "json"}
    /\ trim(chatInput) # <<>>
    /\ lastEvent = [op |-> "click", handled |-> FALSE]

\* C19: chatCompletion answers a request with an empty messages list with a
\* validation error, and a request it rejects leaves the number of calls to
\* the model runtime unchanged.
C19_EmptyRequestRejectedBeforeCall ==
    [][/\ (gateway' # gateway /\ gateway'.request.messages = <<>>) =>
              gateway'.result.kind = "ValidationError"
       /\ (gateway' # gateway /\ gateway'.result.kind = "ValidationError") =>
              gateway'.runtimeCalls = gateway.runtimeCalls]_vars

\* an empty request was rejected after the runtime had been called twice
C19_Witness ==
    /\ gateway.request.messages = <<>>
    /\ gateway.result.kind = "ValidationError"
    /\ gateway.runtimeCalls = 2

\* C20: in every reachable state, also after a clearChat confirmed while a
\* reply was awaited, each assistant message of the transcript is immediately
\* preceded by a user message, so the transcript never begins with an
\* assistant message.
C20_AssistantFollowsUser ==
    \A k \in 1..Len(messages) :
        messages[k].role = "assistant" =>
            /\ k > 1
            /\ messages[k - 1].role = "user"

\* C21: every chat-completion request the controller has sent passes the
\* validation of chatCompletion: its messages list is non-empty, and every
\* entry has role user or assistant and a content that is present and
\* non-empty.
C21_RequestsPassValidation ==
    \A i \in 1..Len(inflight) :
        inflight[i].kind \in {"fetch", "json"} =>
            /\ \A k \in 1..Len(inflight[i].body) :
                   "content" \in DOMAIN inflight[i].body[k]
            /\ validRequest([messages |-> inflight[i].body])

\* C22: the error notice of a failed chat request is never part of a
\* request sent to the Gateway: every assistant entry of the messages of a
\* request carries a content the session has read from an earlier reply of
\* the Gateway.
C22_NoticeNeverSent ==
    \A i \in 1..Len(inflight) :
        inflight[i].kind \in {"fetch", "json"} =>
            \A k \in 1..Len(inflight[i].body) :
                LET entry == inflight[i].body[k] IN
                entry.role = "assistant" =>
                    /\ entry # assistantMsg(ErrorNotice)
                    /\ (IF "content" \in DOMAIN entry
                        THEN entry.content ELSE Undefined) \in returned

\* after a failed request, whose notice is on the page, and an answered one,
\* a request is outstanding that carries the answer
C22_Witness ==
    /\ \E k \in 1..Len(rendered) : rendered[k] = assistantMsg(ErrorNotice)
    /\ \E i \in 1..Len(inflight) :
           /\ inflight[i].kind = "fetch"
           /\ \E k \in 1..Len(inflight[i].body) :
                  inflight[i].body[k].role = "assistant"

====
